---- MODULE Spec2Model ----
(***************************************************************************)
(* Rule-based employee scheduler (scheduler_logic.py).                     *)
(*                                                                         *)
(* create_rule_based_schedule as a state machine: the Availability         *)
(* Compiler (preprocess_employee_data and the per-slot sets), the Override *)
(* Applier (one step per override), the Slot Solver (one step per call of  *)
(* solve_schedule_recursive, with its call stack) and the final result.    *)
(*                                                                         *)
(* Clock times are minutes since midnight of the reference date; a clock   *)
(* string such as "9:30 AM" is the record [kind |-> "clock", h |-> 9,      *)
(* m |-> 30, p |-> "AM"]; a dict is a function (a record whose DOMAIN is   *)
(* its key set) or, where the code depends on insertion order, a sequence  *)
(* of [pos, emp] items.                                                    *)
(***************************************************************************)
EXTENDS Integers, Sequences, FiniteSets, TLC

VARIABLES
    store_open,         \* store_open_time_obj, minutes
    store_close,        \* store_close_time_obj, minutes
    employee_data_list, \* the roster: sequence of Employee Shift Records
    rules,              \* the Rule Set (a dict)
    has_lobby,          \* has_lobby
    overrides,          \* sequence of override dicts
    pc,                 \* position in create_rule_based_schedule
    time_slots,         \* time_slots_str
    availability,       \* availability[time_str]: set of working names
    breaks,             \* breaks[time_str]
    training,           \* training[time_str]
    schedule,           \* schedule_assignments[time_str]: ordered dict pos -> emp
    ov_idx,             \* number of overrides the loop of line 136 has consumed
    time_idx,           \* time_idx of the innermost solve_schedule_recursive call
    employee_states,    \* employee_states of the innermost call
    stack,              \* the frames of the calls that are waiting on line 113
    is_solved,          \* what the innermost finished call returned
    result,             \* what create_rule_based_schedule returned
    run,                \* number of the run of create_rule_based_schedule
    prev_result         \* result of the previous run on the same inputs

vars == <<store_open, store_close, employee_data_list, rules, has_lobby, overrides,
          pc, time_slots, availability, breaks, training, schedule, ov_idx,
          time_idx, employee_states, stack, is_solved, result, run, prev_result>>

inputs == <<store_open, store_close, employee_data_list, rules, has_lobby, overrides>>

-----------------------------------------------------------------------------
(* Python values *)

PyNone == "None"
EmptyDict == [k \in {} |-> 0]

\* dict.get(key, default)
Get(d, k, default) == IF k \in DOMAIN d THEN d[k] ELSE default

\* a value that is not a dict (None, a list, ...): only its Python type is kept
NotADict(py_type) == [py_type |-> py_type]

\* v.get exists: rules.get on lines 60 and 74 needs a dict
HasGet(v) == "py_type" \notin DOMAIN v

\* pd.NaT as a time value
NaT == -1

\* pd.Timedelta(minutes=30), the grid increment of lines 52 and 147
SlotMinutes == 30
\* pd.Timedelta(minutes=30), the break window of line 40
BreakMinutes == 30
\* pd.Timedelta(minutes=60), the default training window of line 41
TrainingDefaultMinutes == 60

BASE_FINAL_SCHEDULE_ROW_ORDER ==
    << "Handout", "Line Buster 1", "Conductor", "Line Buster 2", "Greeter", "Expo",
       "Drink Maker 1", "Drink Maker 2", "Line Buster 3", "Break",
       "Training off the Line or Frosting?" >>

NonWorkRows == {"Break", "Training off the Line or Frosting?"}

SeqToSet(s) == {s[i] : i \in 1..Len(s)}

\* final_schedule_row_order, lines 118-120
FinalRowOrder(lobby) ==
    IF lobby THEN BASE_FINAL_SCHEDULE_ROW_ORDER
    ELSE LET NotGreeter(p) == p # "Greeter"
         IN SelectSeq(BASE_FINAL_SCHEDULE_ROW_ORDER, NotGreeter)

\* work_positions, line 121
WorkPositions(lobby) ==
    LET IsWork(p) == p \notin NonWorkRows
    IN SelectSeq(FinalRowOrder(lobby), IsWork)

-----------------------------------------------------------------------------
(* Clock strings *)

Clock(hh, mm, ap) == [kind |-> "clock", h |-> hh, m |-> mm, p |-> ap]
Blank == [kind |-> "blank", h |-> 0, m |-> 0, p |-> ""]      \* '', 'N/A' or a missing key
Garbage == [kind |-> "bad", h |-> 0, m |-> 0, p |-> ""]      \* a string to_datetime rejects

\* t.strftime('%I:%M %p').lstrip('0'), lines 128 and 142
strftime(t) ==
    LET h24 == t \div 60
        h12 == IF h24 % 12 = 0 THEN 12 ELSE h24 % 12
    IN Clock(h12, t % 60, IF h24 < 12 THEN "AM" ELSE "PM")

\* parse_time_input, lines 15-18
parse_time_input(time_val) ==
    IF time_val.kind = "blank" THEN NaT
    ELSE IF time_val.kind = "bad" THEN NaT
    ELSE ((time_val.h % 12) + (IF time_val.p = "PM" THEN 12 ELSE 0)) * 60 + time_val.m

notna(t) == t # NaT

\* bool(x) of a pandas Timestamp or NaT: neither defines __bool__ or __len__
Truthy(t) == TRUE

-----------------------------------------------------------------------------
(* Names *)

\* first character of a surname, name_parts[1][0] on line 33
FirstChar(s) ==
    CASE s = "Stone" -> "S"
      [] s = "Young" -> "Y"
      [] s = "Diaz" -> "D"
      [] OTHER -> "?"

\* A raw Name is the sequence Name.split(' ', 1) yields: <<"Alice">>, <<"Bob", "Stone">>.
\* Lines 32-33: f"{first} {initial}.".strip()
NormalizeName(name_parts) ==
    LET initial == IF Len(name_parts) > 1 /\ name_parts[2] # ""
                   THEN FirstChar(name_parts[2]) ELSE ""
    IN IF name_parts[1] = ""
       THEN (IF initial = "" THEN "." ELSE initial \o ".")     \* strip() eats the space
       ELSE name_parts[1] \o " " \o initial \o "."

\* Python's order of the strings the model uses, for sorted() on line 94 and 156
NameOrder == << ".", "Alice", "Alice .", "Bob S.", "Cy Y.", "Dee D." >>

Rank(n) == CHOOSE i \in 1..Len(NameOrder) : NameOrder[i] = n

\* list(a_set): a set iterates in an order the hash seed of the process picks
ListOrders(S) ==
    {l \in [1..Cardinality(S) -> S] : \A i, j \in 1..Cardinality(S) : l[i] = l[j] => i = j}

\* line 94 without sorted(): the list keeps the set's iteration order
Unsorted(l) == l

RECURSIVE InsertSorted(_, _)
InsertSorted(n, l) ==
    IF l = <<>> THEN <<n>>
    ELSE IF Rank(n) < Rank(Head(l)) THEN <<n>> \o l
    ELSE <<Head(l)>> \o InsertSorted(n, Tail(l))

\* sorted(a_list)
RECURSIVE sorted(_)
sorted(l) == IF l = <<>> THEN <<>> ELSE InsertSorted(Head(l), sorted(Tail(l)))

-----------------------------------------------------------------------------
(* Availability Compiler: preprocess_employee_data, lines 28-53 *)

\* lines 34-35
ShiftStart(emp_data, open_dt) ==
    LET s == parse_time_input(emp_data.ShiftStart)
    IN IF notna(s) /\ s < open_dt THEN open_dt ELSE s

\* line 34 without line 36: the shift end is not clipped to the store's close
ShiftEndUnclipped(emp_data, close_dt) == parse_time_input(emp_data.ShiftEnd)

\* lines 34, 36
ShiftEnd(emp_data, close_dt) ==
    LET s == parse_time_input(emp_data.ShiftEnd)
    IN IF notna(s) /\ s > close_dt THEN close_dt ELSE s

\* line 40
BreakEnd(b_start) == IF notna(b_start) THEN b_start + BreakMinutes ELSE NaT

\* line 41: training_end or (training_start + 60 min if notna(training_start) else NaT)
TrainingEnd(training_start, training_end) ==
    IF Truthy(training_end) THEN training_end
    ELSE IF notna(training_start) THEN training_start + TrainingDefaultMinutes ELSE NaT

\* line 45
OnBreak(curr, b_start, b_end) == notna(b_start) /\ b_start <= curr /\ curr < b_end

\* line 46
OnTraining(curr, training_start, t_end) ==
    notna(training_start) /\ notna(t_end) /\ training_start <= curr /\ curr < t_end

\* line 47
IsWorking(on_break, on_training) == ~(on_break \/ on_training)

\* lines 48-51: one row of df_long
SlotRow(curr, emp_data) ==
    LET b_start == parse_time_input(emp_data.Break)
        training_start == parse_time_input(emp_data.TrainingStart)
        training_end == parse_time_input(emp_data.TrainingEnd)
        on_break == OnBreak(curr, b_start, BreakEnd(b_start))
        on_training == OnTraining(curr, training_start,
                                  TrainingEnd(training_start, training_end))
    IN [Time |-> curr, EmployeeName |-> NormalizeName(emp_data.Name),
        IsWorking |-> IsWorking(on_break, on_training),
        IsOnBreak |-> on_break, IsOnTraining |-> on_training]

\* the while loop of lines 43-52
RECURSIVE EmployeeSlots(_, _, _)
EmployeeSlots(curr, s_end, emp_data) ==
    IF curr < s_end
    THEN <<SlotRow(curr, emp_data)>> \o EmployeeSlots(curr + SlotMinutes, s_end, emp_data)
    ELSE <<>>

\* the for loop of lines 31-52: all_slots
RECURSIVE preprocess_employee_data(_, _, _)
preprocess_employee_data(data, open_dt, close_dt) ==
    IF data = <<>> THEN <<>>
    ELSE LET emp_data == Head(data)
             s_start == ShiftStart(emp_data, open_dt)
             s_end == ShiftEnd(emp_data, close_dt)
         IN (IF notna(s_start) /\ notna(s_end)
             THEN EmployeeSlots(s_start, s_end, emp_data) ELSE <<>>)
            \o preprocess_employee_data(Tail(data), open_dt, close_dt)

\* line 126 without the check: an empty frame goes on to the solver
DfNeverEmpty(df_long) == FALSE

\* df_long.empty, line 126
DfEmpty(df_long) == df_long = <<>>

\* sorted(df_long['Time'].unique()), line 127
SortedTimes(S) ==
    [i \in 1..Cardinality(S) |-> CHOOSE x \in S : Cardinality({y \in S : y < x}) = i - 1]

TimeSlotsDt(df_long) == SortedTimes({df_long[i].Time : i \in 1..Len(df_long)})

\* line 128
TimeSlotsStr(df_long) ==
    LET dts == TimeSlotsDt(df_long) IN [i \in 1..Len(dts) |-> strftime(dts[i])]

\* lines 130-134: names of the rows of one slot whose flag is set
NamesAt(df_long, time_dt, flag) ==
    {df_long[i].EmployeeName : i \in {j \in 1..Len(df_long) :
                                        df_long[j].Time = time_dt /\ df_long[j][flag]}}

SlotSets(df_long, flag) ==
    LET dts == TimeSlotsDt(df_long)
        LastIdx(s) == CHOOSE i \in 1..Len(dts) :
                          /\ strftime(dts[i]) = s
                          /\ \A j \in 1..Len(dts) : strftime(dts[j]) = s => j <= i
    IN [s \in {strftime(dts[i]) : i \in 1..Len(dts)} |->
           NamesAt(df_long, dts[LastIdx(s)], flag)]

-----------------------------------------------------------------------------
(* Ordered dicts position -> employee: sequences of items, keys unique *)

Item(position, employee) == [pos |-> position, emp |-> employee]

DictKeys(d) == {d[i].pos : i \in 1..Len(d)}
DictValues(d) == {d[i].emp : i \in 1..Len(d)}
DictGet(d, position) ==
    IF position \in DictKeys(d)
    THEN d[CHOOSE i \in 1..Len(d) : d[i].pos = position].emp ELSE PyNone

\* d[position] = employee: a known key keeps its place, a new key goes last
DictSet(d, position, employee) ==
    IF position \in DictKeys(d)
    THEN [i \in 1..Len(d) |-> IF d[i].pos = position THEN Item(position, employee) ELSE d[i]]
    ELSE Append(d, Item(position, employee))

\* d.update(d2) and {**d, **d2}
RECURSIVE DictUpdate(_, _)
DictUpdate(d, d2) ==
    IF d2 = <<>> THEN d ELSE DictUpdate(DictSet(d, Head(d2).pos, Head(d2).emp), Tail(d2))

-----------------------------------------------------------------------------
(* Override Applier: lines 136-147 *)

\* line 139: all([emp, pos, notna(start_dt), notna(end_dt)])
OverrideWellFormed(override) ==
    /\ Get(override, "employee", "") # ""
    /\ Get(override, "position", "") # ""
    /\ notna(parse_time_input(Get(override, "start_time", Blank)))
    /\ notna(parse_time_input(Get(override, "end_time", Blank)))

\* lines 142-146: one pass of the while loop body
PinSlot(sa, curr, position, employee) ==
    LET time_str == strftime(curr)
    IN IF time_str \in DOMAIN sa.schedule
       THEN [schedule |-> [sa.schedule EXCEPT
                              ![time_str] = DictSet(@, position, employee)],
             availability |-> [sa.availability EXCEPT ![time_str] = @ \ {employee}]]
       ELSE sa

\* the while loop of lines 140-147
RECURSIVE PinRange(_, _, _, _, _)
PinRange(sa, curr, end_dt, position, employee) ==
    IF curr < end_dt
    THEN PinRange(PinSlot(sa, curr, position, employee),
                  curr + SlotMinutes, end_dt, position, employee)
    ELSE sa

\* the body of the for loop of line 136, for one override
ApplyOneOverride(sa, override) ==
    IF ~OverrideWellFormed(override) THEN sa
    ELSE PinRange(sa, parse_time_input(override.start_time),
                  parse_time_input(override.end_time),
                  override.position, override.employee)

-----------------------------------------------------------------------------
(* Rule validity test: is_assignment_valid, lines 56-70 *)

StateOf(states, employee) == Get(states, employee, EmptyDict)

\* lines 61-63: the rule's window holds the slot time
RuleApplies(rule, current_time) ==
    LET rule_start == parse_time_input(Get(rule, "start_time", Clock(12, 0, "AM")))
        rule_end == parse_time_input(Get(rule, "end_time", Clock(11, 59, "PM")))
    IN rule_start <= current_time /\ current_time < rule_end

\* lines 64-65 (a scalar position is a one-item list)
RulePositions(rule) == SeqToSet(Get(rule, "position", <<>>))

\* default of rule.get('max_consecutive_slots', 99), line 67
DefaultMaxConsecutive == 99

\* lines 66-69 with > for >=: the cap is enforced one slot late
RuleRejectsLate(rule, position, last_pos, time_in_pos) ==
    /\ position \in RulePositions(rule)
    /\ \/ /\ position = last_pos
          /\ time_in_pos > Get(rule, "max_consecutive_slots", DefaultMaxConsecutive)
       \/ /\ "max_consecutive_slots_in_group" \in DOMAIN rule
          /\ last_pos \in RulePositions(rule)
          /\ time_in_pos > rule.max_consecutive_slots_in_group

\* lines 66-69: this rule rejects the pair
RuleRejects(rule, position, last_pos, time_in_pos) ==
    /\ position \in RulePositions(rule)
    /\ \/ /\ position = last_pos
          /\ time_in_pos >= Get(rule, "max_consecutive_slots", DefaultMaxConsecutive)
       \/ /\ "max_consecutive_slots_in_group" \in DOMAIN rule
          /\ last_pos \in RulePositions(rule)
          /\ time_in_pos >= rule.max_consecutive_slots_in_group

is_assignment_valid(employee, position, time_slot_obj, states, rule_set) ==
    LET state == StateOf(states, employee)
        last_pos == Get(state, "last_pos", PyNone)
        time_in_pos == Get(state, "time_in_pos", 0)
        position_rules == Get(rule_set, "position_rules", <<>>)
    IN \A i \in 1..Len(position_rules) :
          ~(/\ RuleApplies(position_rules[i], time_slot_obj)
            /\ RuleRejects(position_rules[i], position, last_pos, time_in_pos))

-----------------------------------------------------------------------------
(* Scoring: calculate_assignment_score, lines 72-86 *)

\* lines 77-85: the score of one (pos, emp) item
PairScore(position, employee, states, rule_set) ==
    LET strategy == Get(rule_set, "prioritization_strategy", EmptyDict)
        consistency_roles == SeqToSet(Get(strategy, "focus_on_consistency_for", <<>>))
        state == StateOf(states, employee)
        history == Get(state, "history", <<>>)
    IN IF position \in consistency_roles
       THEN (IF Get(state, "last_pos", PyNone) = position THEN 10 ELSE 0)
       ELSE IF position \notin SeqToSet(history) THEN 1
       ELSE IF Len(history) > 0 /\ history[Len(history)] = position THEN -10
       ELSE IF Len(history) > 1 /\ history[Len(history) - 1] = position THEN -5
       ELSE 0

RECURSIVE calculate_assignment_score(_, _, _)
calculate_assignment_score(assignments, states, rule_set) ==
    IF assignments = <<>> THEN 0
    ELSE PairScore(Head(assignments).pos, Head(assignments).emp, states, rule_set)
         + calculate_assignment_score(Tail(assignments), states, rule_set)

-----------------------------------------------------------------------------
(* Slot Solver: solve_schedule_recursive, lines 88-115 *)

\* l without its i-th item
RemoveAt(l, i) == SubSeq(l, 1, i - 1) \o SubSeq(l, i + 1, Len(l))

\* itertools.permutations(l), in the order it yields them
RECURSIVE permutations(_)
permutations(l) ==
    IF l = <<>> THEN << <<>> >>
    ELSE LET rest(i) == permutations(RemoveAt(l, i))
             from(i) == [k \in 1..Len(rest(i)) |-> <<l[i]>> \o rest(i)[k]]
             RECURSIVE upto(_)
             upto(i) == IF i = 0 THEN <<>> ELSE upto(i - 1) \o from(i)
         IN upto(Len(l))

\* line 92
PreAssigned(slot_dict) == DictKeys(slot_dict)

\* line 95 with the slice one short: [:len(avail_emps) - 1]
PositionsToFillShort(work_positions, pre_assigned, avail_emps) ==
    LET Free(p) == p \notin pre_assigned
        free == SelectSeq(work_positions, Free)
        n == IF Len(avail_emps) < Len(free) THEN Len(avail_emps) ELSE Len(free)
    IN SubSeq(free, 1, n - 1)

\* lines 93 and 95
PositionsToFill(work_positions, pre_assigned, avail_emps) ==
    LET Free(p) == p \notin pre_assigned
        free == SelectSeq(work_positions, Free)
    IN SubSeq(free, 1, IF Len(avail_emps) < Len(free) THEN Len(avail_emps) ELSE Len(free))

\* line 98: {pos: emp for pos, emp in zip(positions_to_fill, p)}
ZipAssigns(positions_to_fill, p) ==
    [i \in 1..(IF Len(p) < Len(positions_to_fill) THEN Len(p) ELSE Len(positions_to_fill))
        |-> Item(positions_to_fill[i], p[i])]

\* line 99 with any() for all(): one valid pair lets the pairing through
AnyValid(assigns, time_slot_obj, states, rule_set) ==
    \/ assigns = <<>>
    \/ \E i \in 1..Len(assigns) :
          is_assignment_valid(assigns[i].emp, assigns[i].pos, time_slot_obj, states, rule_set)

\* line 99
AllValid(assigns, time_slot_obj, states, rule_set) ==
    \A i \in 1..Len(assigns) :
        is_assignment_valid(assigns[i].emp, assigns[i].pos, time_slot_obj, states, rule_set)

\* line 101
Better(score, best) == ~best.found \/ score > best.score

\* lines 96-102: the loop over the permutations, from the i-th on
RECURSIVE BestFrom(_, _, _, _, _, _, _)
BestFrom(perms, i, best, positions_to_fill, time_slot_obj, states, rule_set) ==
    IF i > Len(perms) THEN best
    ELSE LET assigns == ZipAssigns(positions_to_fill, perms[i])
             score == calculate_assignment_score(assigns, states, rule_set)
             next == IF /\ AllValid(assigns, time_slot_obj, states, rule_set)
                        /\ Better(score, best)
                     THEN [found |-> TRUE, score |-> score, assigns |-> assigns]
                     ELSE best
         IN BestFrom(perms, i + 1, next, positions_to_fill, time_slot_obj, states, rule_set)

NoPerm == [found |-> FALSE, score |-> 0, assigns |-> <<>>]

\* permutations(avail_emps) of line 97, of the list line 94 has built
PermsOf(avail_emps) == CHOOSE p \in {permutations(emps) : emps \in {avail_emps}} : TRUE

\* best_perm of lines 96-102; the permutations and the positions are computed once,
\* before the loop
BestPerm(avail_emps, positions_to_fill, time_slot_obj, states, rule_set) ==
    CHOOSE best \in
        { BestFrom(perms, 1, NoPerm, fill, time_slot_obj, states, rule_set) :
            perms \in {PermsOf(avail_emps)}, fill \in {positions_to_fill} } : TRUE

\* line 109
InSameGroup(position, last_pos, rule_set) ==
    LET position_rules == Get(rule_set, "position_rules", <<>>)
    IN \E i \in 1..Len(position_rules) :
          /\ "max_consecutive_slots_in_group" \in DOMAIN position_rules[i]
          /\ position \in RulePositions(position_rules[i])
          /\ last_pos \in RulePositions(position_rules[i])

\* length of the rolling history, line 111
HistoryLen == 3

LastN(l, n) == IF Len(l) <= n THEN l ELSE SubSeq(l, Len(l) - n + 1, Len(l))

\* lines 107-111: the new state of emp after holding position
NextState(state, position, rule_set) ==
    LET last_pos == Get(state, "last_pos", PyNone)
        continuing == position = last_pos \/ InSameGroup(position, last_pos, rule_set)
    IN [last_pos |-> position,
        time_in_pos |-> IF continuing THEN Get(state, "time_in_pos", 0) + 1 ELSE 1,
        history |-> LastN(Append(Get(state, "history", <<>>), position), HistoryLen)]

\* new_states[emp] = v
SetState(states, employee, v) ==
    [e \in DOMAIN states \cup {employee} |-> IF e = employee THEN v ELSE states[e]]

\* new_states = {}: a map that starts empty instead of as a copy
FreshStates(states) == EmptyDict

\* line 104: new_states = employee_states.copy()
CopyStates(states) == states

\* lines 104-111: the loop over full_assigns; every item reads the states the call got
RECURSIVE NewStates(_, _, _, _)
NewStates(new_states, full_assigns, states, rule_set) ==
    IF full_assigns = <<>> THEN new_states
    ELSE LET it == Head(full_assigns)
         IN NewStates(SetState(new_states, it.emp,
                               NextState(StateOf(states, it.emp), it.pos, rule_set)),
                      Tail(full_assigns), states, rule_set)

-----------------------------------------------------------------------------
(* create_rule_based_schedule, lines 117-161 *)

EmptyInputMessage == "No employee data to process."             \* line 126
InfeasibleMessage == "ERROR: Could not find a valid schedule."  \* line 151

NoResult == [kind |-> "none", text |-> "", rows |-> <<>>]
Message(t) == [kind |-> "message", text |-> t, rows |-> <<>>]
\* an exception that leaves create_rule_based_schedule (no try in lines 117-161)
Raised(exception) == [kind |-> "exception", text |-> exception, rows |-> <<>>]

DfLong == preprocess_employee_data(employee_data_list, store_open, store_close)

\* lines 125-126: nothing to schedule
ReturnEmpty ==
    /\ pc = "start"
    /\ DfEmpty(DfLong)
    /\ result' = Message(EmptyInputMessage)
    /\ pc' = "done"
    /\ UNCHANGED <<inputs, time_slots, availability, breaks, training, schedule,
                   ov_idx, time_idx, employee_states, stack, is_solved, run,
                   prev_result>>

\* lines 125-135: the slot grid, the three sets of every slot, the empty schedule
Compile ==
    /\ pc = "start"
    /\ \E df_long \in {DfLong} :
          /\ ~DfEmpty(df_long)
          /\ time_slots' = TimeSlotsStr(df_long)
          /\ availability' = SlotSets(df_long, "IsWorking")
          /\ breaks' = SlotSets(df_long, "IsOnBreak")
          /\ training' = SlotSets(df_long, "IsOnTraining")
    /\ schedule' = [t \in SeqToSet(time_slots') |-> <<>>]
    /\ ov_idx' = 0
    /\ pc' = IF overrides = <<>> THEN "solve" ELSE "overrides"
    /\ UNCHANGED <<inputs, time_idx, employee_states, stack, is_solved, result, run,
                   prev_result>>

\* lines 136-147: one pass of the for loop
ApplyOverride ==
    /\ pc = "overrides"
    /\ ov_idx < Len(overrides)
    /\ LET sa == ApplyOneOverride([schedule |-> schedule, availability |-> availability],
                                  overrides[ov_idx + 1])
       IN /\ schedule' = sa.schedule
          /\ availability' = sa.availability
    /\ ov_idx' = ov_idx + 1
    /\ pc' = IF ov_idx' = Len(overrides) THEN "solve" ELSE "overrides"
    /\ UNCHANGED <<inputs, time_slots, breaks, training, time_idx, employee_states,
                   stack, is_solved, result, run, prev_result>>

\* the current slot of the innermost call (time_idx counts from 0)
CurrentSlot == time_slots[time_idx + 1]

\* line 89: every slot is done
SolveBase ==
    /\ pc = "solve"
    /\ time_idx >= Len(time_slots)
    /\ is_solved' = TRUE
    /\ pc' = "return"
    /\ UNCHANGED <<inputs, time_slots, availability, breaks, training, schedule,
                   ov_idx, time_idx, employee_states, stack, result, run, prev_result>>

\* the locals of one call, lines 90-102, for one iteration order of the availability set
Locals(listed) ==
    LET slot == CurrentSlot
        obj == parse_time_input(slot)
        pre == PreAssigned(schedule[slot])
        emps == sorted(listed)
        fill == PositionsToFill(WorkPositions(has_lobby), pre, emps)
    IN [time_idx |-> time_idx, employee_states |-> employee_states,
        pre_assigned |-> pre, avail_emps |-> emps, positions_to_fill |-> fill,
        best_perm |-> BestPerm(emps, fill, obj, employee_states, rules)]

\* line 113 with time_idx for time_idx + 1: the callee gets the caller's slot again
SameIdx(idx) == idx

\* time_idx + 1, the slot index line 113 hands to the callee
NextIdx(idx) == idx + 1

\* lines 103-113: commit the best pairing and call the solver for the next slot
SolveCommit ==
    /\ pc = "solve"
    /\ time_idx < Len(time_slots)
    /\ HasGet(rules)
    /\ \E listed \in ListOrders(Get(availability, CurrentSlot, {})) :
          \E f \in {Locals(listed)} :
          \E full_assigns \in {DictUpdate(schedule[CurrentSlot], f.best_perm.assigns)} :
             /\ f.best_perm.found
             /\ employee_states' = NewStates(CopyStates(employee_states), full_assigns,
                                             employee_states, rules)
             /\ schedule' = [schedule EXCEPT
                                ![CurrentSlot] = DictUpdate(@, f.best_perm.assigns)]
             /\ stack' = Append(stack, f)
    /\ time_idx' = NextIdx(time_idx)
    /\ UNCHANGED <<inputs, pc, time_slots, availability, breaks, training, ov_idx,
                   is_solved, result, run, prev_result>>

\* lines 103 and 115: no valid pairing, the call returns (False, None)
SolveNoPerm ==
    /\ pc = "solve"
    /\ time_idx < Len(time_slots)
    /\ HasGet(rules)
    /\ \E listed \in ListOrders(Get(availability, CurrentSlot, {})) :
          \E f \in {Locals(listed)} : ~f.best_perm.found
    /\ is_solved' = FALSE
    /\ pc' = "return"
    /\ UNCHANGED <<inputs, time_slots, availability, breaks, training, schedule,
                   ov_idx, time_idx, employee_states, stack, result, run, prev_result>>

\* lines 97-100 with rules that are no dict: the first pairing calls rules.get (line 60
\* through line 99, or line 74 through line 100 when the pairing is empty), which raises
\* AttributeError; nothing catches it
SolveRaises ==
    /\ pc = "solve"
    /\ time_idx < Len(time_slots)
    /\ ~HasGet(rules)
    /\ result' = Raised("AttributeError")
    /\ pc' = "done"
    /\ UNCHANGED <<inputs, time_slots, availability, breaks, training, schedule,
                   ov_idx, time_idx, employee_states, stack, is_solved, run,
                   prev_result>>

\* lines 113-115: the caller gets the callee's answer and returns it
ReturnToCaller ==
    /\ pc = "return"
    /\ stack # <<>>
    /\ LET f == stack[Len(stack)]
       IN /\ time_idx' = f.time_idx
          /\ employee_states' = f.employee_states
    /\ stack' = SubSeq(stack, 1, Len(stack) - 1)
    /\ UNCHANGED <<inputs, pc, time_slots, availability, breaks, training, schedule,
                   ov_idx, is_solved, result, run, prev_result>>

\* ", ".join(sorted(list(a_set))), lines 156-157, for every iteration order
Joined(S) == {sorted(l) : l \in ListOrders(S)}

\* lines 153-159: one row of the output table, cut to the columns of the row order
RowChoices(time_str) ==
    {[Time |-> time_str,
      cells |-> [p \in SeqToSet(WorkPositions(has_lobby)) |->
                    IF p \in DictKeys(schedule[time_str])
                    THEN DictGet(schedule[time_str], p) ELSE ""],
      Break |-> b, Training |-> t] :
        b \in Joined(Get(breaks, time_str, {})), t \in Joined(Get(training, time_str, {}))}

RECURSIVE RowSeqs(_)
RowSeqs(n) ==
    IF n = 0 THEN {<<>>}
    ELSE {Append(r, x) : r \in RowSeqs(n - 1), x \in RowChoices(time_slots[n])}

\* lines 148-161: the outermost call has returned
Finish ==
    /\ pc = "return"
    /\ stack = <<>>
    /\ IF is_solved
       THEN \E rows \in RowSeqs(Len(time_slots)) :
               result' = [kind |-> "csv", text |-> "", rows |-> rows]
       ELSE result' = Message(InfeasibleMessage)
    /\ pc' = "done"
    /\ UNCHANGED <<inputs, time_slots, availability, breaks, training, schedule,
                   ov_idx, time_idx, employee_states, stack, is_solved, run,
                   prev_result>>

\* the caller runs create_rule_based_schedule again on the same inputs
Rerun ==
    /\ pc = "done"
    /\ run = 1
    /\ run' = 2
    /\ prev_result' = result
    /\ pc' = "start"
    /\ time_slots' = <<>>
    /\ availability' = EmptyDict
    /\ breaks' = EmptyDict
    /\ training' = EmptyDict
    /\ schedule' = EmptyDict
    /\ ov_idx' = 0
    /\ time_idx' = 0
    /\ employee_states' = EmptyDict
    /\ stack' = <<>>
    /\ is_solved' = FALSE
    /\ result' = NoResult
    /\ UNCHANGED inputs

\* the state at the call of create_rule_based_schedule
Fresh ==
    /\ pc = "start"
    /\ time_slots = <<>>
    /\ availability = EmptyDict
    /\ breaks = EmptyDict
    /\ training = EmptyDict
    /\ schedule = EmptyDict
    /\ ov_idx = 0
    /\ time_idx = 0
    /\ employee_states = EmptyDict
    /\ stack = <<>>
    /\ is_solved = FALSE
    /\ result = NoResult
    /\ run = 1
    /\ prev_result = NoResult

Next ==
    \/ ReturnEmpty
    \/ Compile
    \/ ApplyOverride
    \/ SolveBase
    \/ SolveCommit
    \/ SolveNoPerm
    \/ ReturnToCaller
    \/ Finish

-----------------------------------------------------------------------------
(* Bounded inputs *)

\* store hours are MaxSlots grid steps long
MaxSlots == 3
\* employees on a roster
MaxEmployees == 2
\* overrides in a list
MaxOverrides == 2

OpenMin == 9 * 60
CloseMin == OpenMin + MaxSlots * SlotMinutes

\* the clock string of the k-th grid step after opening
T(k) == strftime(OpenMin + k * SlotMinutes)
\* a clock string a quarter of an hour after the k-th grid step
OffGrid(k) == strftime(OpenMin + k * SlotMinutes + 15)

RawNames == << <<"Bob", "Stone">>, <<"Cy", "Young">>, <<"Dee", "Diaz">>, <<"Alice">> >>

Employee(name, s_start, s_end, brk, t_start, t_end) ==
    [Name |-> name, ShiftStart |-> s_start, ShiftEnd |-> s_end, Break |-> brk,
     TrainingStart |-> t_start, TrainingEnd |-> t_end]

Override(employee, position, s, e) ==
    [employee |-> employee, position |-> position, start_time |-> s, end_time |-> e]

\* sequences over S of length at most n
RECURSIVE SeqsUpTo(_, _)
SeqsUpTo(S, n) ==
    IF n = 0 THEN {<<>>}
    ELSE LET shorter == SeqsUpTo(S, n - 1)
         IN shorter \cup {Append(q, x) : q \in {r \in shorter : Len(r) = n - 1}, x \in S}

\* rosters of 0..n employees, the i-th drawn from records[i]
RECURSIVE Rosters(_, _)
Rosters(n, records) ==
    IF n = 0 THEN {<<>>}
    ELSE LET shorter == Rosters(n - 1, records)
         IN shorter \cup {Append(q, x) : q \in {r \in shorter : Len(r) = n - 1},
                                         x \in records[n]}

CapRule(positions, n) == [position |-> positions, max_consecutive_slots |-> n]
GroupRule(positions, n) == [position |-> positions, max_consecutive_slots_in_group |-> n]
WindowRule(positions, n, s, e) ==
    [position |-> positions, max_consecutive_slots |-> n, start_time |-> s, end_time |-> e]

NoRules == EmptyDict

RuleSets ==
    { NoRules,
      [position_rules |-> << CapRule(<<"Handout">>, 0) >>],
      [position_rules |-> << CapRule(<<"Handout">>, 1) >>],
      [position_rules |-> << CapRule(<<"Handout", "Line Buster 1">>, 2) >>],
      [position_rules |-> << GroupRule(<<"Handout", "Line Buster 1">>, 2) >>],
      [position_rules |-> << WindowRule(<<"Handout">>, 1, T(1), T(MaxSlots)) >>],
      [position_rules |-> << CapRule(<<"Handout">>, 2) >>,
       prioritization_strategy |-> [focus_on_consistency_for |-> <<"Handout">>]] }

\* Spec: the solver's cases. Shifts on the grid, with or without a break; every rule set.
SolverRecords ==
    [i \in 1..MaxEmployees |->
        { Employee(RawNames[i], s, e, b, Blank, Blank) :
            s \in {T(0), T(1)}, e \in {T(MaxSlots - 1), T(MaxSlots)}, b \in {Blank, T(1)} }]

SolverOverrides ==
    { <<>>,
      << Override("Bob S.", "Handout", T(0), T(MaxSlots)) >>,
      << Override("Cy Y.", "Line Buster 1", T(1), T(MaxSlots)) >> }

Init ==
    /\ store_open = OpenMin
    /\ store_close = CloseMin
    /\ employee_data_list \in Rosters(MaxEmployees, SolverRecords)
    /\ rules \in RuleSets
    /\ has_lobby = FALSE
    /\ overrides \in SolverOverrides
    /\ Fresh

Spec == Init /\ [][Next]_vars

\* SpecOverrides: the Override Applier's cases. A roster of full shifts whose first
\* employee has no surname; override lists with the plain and the normalized name,
\* overlapping ranges, a start off the grid, a missing employee, an unparsable start.
OverrideNames == << <<"Alice">>, <<"Bob", "Stone">>, <<"Cy", "Young">>, <<"Dee", "Diaz">> >>

FullShift(name) == Employee(name, T(0), T(MaxSlots), Blank, Blank, Blank)

OverrideRosters ==
    LET full == [i \in 1..MaxEmployees |-> FullShift(OverrideNames[i])]
    IN { <<>>, full,
         [full EXCEPT ![1].ShiftStart = T(1)],
         [full EXCEPT ![MaxEmployees].Break = T(1)] }

OverrideChoices ==
    { Override("Alice", "Expo", T(0), T(2)),
      Override("Alice .", "Expo", T(0), T(2)),
      Override("Bob S.", "Handout", T(0), T(2)),
      Override("Bob S.", "Expo", T(1), T(MaxSlots)),
      Override("Bob S.", "Handout", OffGrid(0), T(2)),
      Override("Alice .", "Handout", OffGrid(0), T(2)),
      Override("", "Handout", T(0), T(2)),
      Override("Bob S.", "Handout", Garbage, T(2)) }

InitOverrides ==
    /\ store_open = OpenMin
    /\ store_close = CloseMin
    /\ employee_data_list \in OverrideRosters
    /\ rules \in {NoRules, [position_rules |-> << CapRule(<<"Handout">>, 1) >>]}
    /\ has_lobby = FALSE
    /\ overrides \in SeqsUpTo(OverrideChoices, MaxOverrides)
    /\ Fresh

SpecOverrides == InitOverrides /\ [][Next]_vars

\* SpecRoster: the Availability Compiler's cases. The first record takes every shape of
\* shift, break and training; the others are plain, on break or unparsable.
Shifts ==
    { <<T(0), T(MaxSlots)>>, <<T(0 - 1), T(MaxSlots + 1)>>, <<Blank, T(MaxSlots)>>,
      <<T(0), Garbage>>, <<T(1), T(1)>>, <<OffGrid(0), T(MaxSlots)>> }

Trainings == { <<Blank, Blank>>, <<T(0), Blank>>, <<T(0), T(2)>>, <<Blank, T(2)>> }

RosterRecords ==
    [i \in 1..MaxEmployees |->
        IF i = 1
        THEN { Employee(OverrideNames[1], sh[1], sh[2], b, tr[1], tr[2]) :
                 sh \in Shifts, b \in {Blank, T(1)}, tr \in Trainings }
        ELSE { FullShift(OverrideNames[i]),
               Employee(OverrideNames[i], T(0), T(MaxSlots), T(0), Blank, Blank),
               Employee(OverrideNames[i], Garbage, Blank, Blank, Blank, Blank) }]

InitRoster ==
    /\ store_open = OpenMin
    /\ store_close = CloseMin
    /\ employee_data_list \in Rosters(MaxEmployees, RosterRecords)
    /\ rules \in {NoRules, [position_rules |-> << CapRule(<<"Handout">>, 1) >>]}
    /\ has_lobby \in BOOLEAN
    /\ overrides \in {<<>>, << Override("Bob S.", "Expo", T(0), T(2)) >>}
    /\ Fresh

SpecRoster == InitRoster /\ [][Next]_vars

\* SpecScenarioC: one override on the grid pins an employee of the roster, called by
\* the plain name or by "First L.", to a position.
ScenarioCRecords ==
    [i \in 1..MaxEmployees |->
        { Employee(OverrideNames[i], s, T(MaxSlots), b, Blank, Blank) :
            s \in {T(0), T(1)}, b \in {Blank, T(1)} }]

ScenarioCOverrides ==
    { << Override(e, p, r[1], r[2]) >> :
        e \in {"Alice", "Bob S."}, p \in {"Handout", "Expo"},
        r \in {<<T(0), T(2)>>, <<T(1), T(MaxSlots)>>, <<T(0), T(MaxSlots + 1)>>} }

InitScenarioC ==
    /\ store_open = OpenMin
    /\ store_close = CloseMin
    /\ employee_data_list \in Rosters(MaxEmployees, ScenarioCRecords)
    /\ rules \in {NoRules, [position_rules |-> << CapRule(<<"Handout">>, 1) >>]}
    /\ has_lobby \in BOOLEAN
    /\ overrides \in ScenarioCOverrides
    /\ Fresh

SpecScenarioC == InitScenarioC /\ [][Next]_vars

\* SpecLive: the program is one synchronous thread, so a step that can be taken is
\* taken. Full shifts with or without a break, every rule set, with or without a pin.
LiveRecords ==
    [i \in 1..MaxEmployees |->
        { Employee(RawNames[i], T(0), T(MaxSlots), b, Blank, Blank) : b \in {Blank, T(1)} }]

InitLive ==
    /\ store_open = OpenMin
    /\ store_close = CloseMin
    /\ employee_data_list \in Rosters(MaxEmployees, LiveRecords)
    /\ rules \in RuleSets
    /\ has_lobby = FALSE
    /\ overrides \in SolverOverrides
    /\ Fresh

SpecLive == InitLive /\ [][Next]_vars /\ WF_vars(Next)

\* SpecCarry: the cases of an employee without a position in a committed slot. Shifts
\* that start at opening or one slot later and end at closing or one slot earlier, with
\* or without a break or a training in the second slot (the first record takes every
\* combination, the others one variation each); with or without one override per work
\* position but the first, each pinning an outsider for the whole day, so that two
\* working employees compete for the one position left.
Outsider == "Zed Z."

PinAllButFirst ==
    LET work_positions == WorkPositions(FALSE)
    IN [i \in 1..(Len(work_positions) - 1) |->
           Override(Outsider, work_positions[i + 1], T(0), T(MaxSlots))]

CarryRecords ==
    [i \in 1..MaxEmployees |->
        IF i = 1
        THEN { Employee(RawNames[i], s, e, b, tr[1], tr[2]) :
                 s \in {T(0), T(1)}, e \in {T(MaxSlots - 1), T(MaxSlots)},
                 b \in {Blank, T(1)}, tr \in {<<Blank, Blank>>, <<T(1), T(2)>>} }
        ELSE { Employee(RawNames[i], T(0), T(MaxSlots), Blank, Blank, Blank),
               Employee(RawNames[i], T(0), T(MaxSlots), T(1), Blank, Blank),
               Employee(RawNames[i], T(1), T(MaxSlots), Blank, Blank, Blank),
               Employee(RawNames[i], T(0), T(MaxSlots - 1), Blank, Blank, Blank) }]

InitCarry ==
    /\ store_open = OpenMin
    /\ store_close = CloseMin
    /\ employee_data_list \in Rosters(MaxEmployees, CarryRecords)
    /\ rules \in { NoRules,
                   [position_rules |-> << CapRule(<<"Handout">>, 1) >>],
                   [position_rules |-> << CapRule(<<"Handout">>, 2) >>],
                   [position_rules |-> << GroupRule(<<"Handout", "Line Buster 1">>, 2) >>] }
    /\ has_lobby = FALSE
    /\ overrides \in {<<>>, PinAllButFirst}
    /\ Fresh

SpecCarry == InitCarry /\ [][Next]_vars

\* SpecTwice: the caller solves the same inputs a second time
NextTwice == Next \/ Rerun

SpecTwice == Init /\ [][NextTwice]_vars

\* SpecConfig: the rules document as yaml.safe_load hands it over: a dict, None (an
\* empty document or only comments) or a list
ConfigRules ==
    { NoRules, [position_rules |-> << CapRule(<<"Handout">>, 1) >>],
      NotADict("NoneType"), NotADict("list") }

NextConfig == Next \/ SolveRaises

InitConfig ==
    /\ store_open = OpenMin
    /\ store_close = CloseMin
    /\ employee_data_list \in Rosters(MaxEmployees, SolverRecords)
    /\ rules \in ConfigRules
    /\ has_lobby = FALSE
    /\ overrides \in SolverOverrides
    /\ Fresh

SpecConfig == InitConfig /\ [][NextConfig]_vars

-----------------------------------------------------------------------------
(* Vocabulary of the properties *)

\* the outermost call has handed back a schedule
Solved == pc = "done" /\ result.kind = "csv"

\* the base case has just returned True: every call is still on the stack
SolvedTop == pc = "return" /\ is_solved /\ Len(stack) = Len(time_slots)

\* the overrides are applied and the solver reads the pool
OverridesApplied == pc \in {"solve", "return", "done"} /\ time_slots # <<>>

SlotTime(k) == parse_time_input(time_slots[k])

\* the slot's time lies in the override's [start, end)
Covers(override, k) ==
    /\ parse_time_input(override.start_time) <= SlotTime(k)
    /\ SlotTime(k) < parse_time_input(override.end_time)

\* the employee who holds the position in the k-th slot, or None
Holder(k, position) == DictGet(schedule[time_slots[k]], position)

\* the positions the employee holds in the k-th slot
PositionsOf(k, employee) ==
    LET d == schedule[time_slots[k]]
    IN {d[i].pos : i \in {j \in 1..Len(d) : d[j].emp = employee}}

-----------------------------------------------------------------------------
(* C1: in every schedule the solve returns as solved, no employee holds more than one
   position in a slot and no position holds more than one employee in a slot. *)
C1_NoDoubleBooking ==
    Solved =>
        \A k \in 1..Len(time_slots) :
            LET d == schedule[time_slots[k]]
            IN \A i, j \in 1..Len(d) :
                  i # j => d[i].emp # d[j].emp /\ d[i].pos # d[j].pos

-----------------------------------------------------------------------------
(* C2: for every override (E, P, [start, end)) and every slot in that range, E, under the
   name the Availability Compiler gives the roster's E, is not in the availability pool
   the solver reads for the slot, and E holds no position other than P in the slot. *)

\* the display name of section 4.1: "First L.", or the plain name without a surname
DisplayName(name_parts) ==
    IF Len(name_parts) > 1 /\ name_parts[2] # ""
    THEN name_parts[1] \o " " \o FirstChar(name_parts[2]) \o "."
    ELSE name_parts[1]

\* the names under which the program knows the employee an override calls E
KnownAs(E) ==
    {E} \cup {NormalizeName(employee_data_list[i].Name) :
                i \in {j \in 1..Len(employee_data_list) :
                         DisplayName(employee_data_list[j].Name) = E}}

C2_OverridePrecedence ==
    OverridesApplied =>
        \A i \in 1..Len(overrides) : \A k \in 1..Len(time_slots) :
            (OverrideWellFormed(overrides[i]) /\ Covers(overrides[i], k)) =>
                /\ KnownAs(overrides[i].employee) \cap availability[time_slots[k]] = {}
                /\ \A e \in KnownAs(overrides[i].employee) :
                      PositionsOf(k, e) \subseteq {overrides[i].position}

-----------------------------------------------------------------------------
(* C3: in every solved schedule, every committed (employee, position) pair of every
   slot, pinned by an override or chosen by the solver, passes is_assignment_valid
   with the Employee State carried into that slot. *)
ValidAt(k, it) ==
    is_assignment_valid(it.emp, it.pos, SlotTime(k), stack[k].employee_states, rules)

C3_AllCommittedValid ==
    SolvedTop =>
        \A k \in 1..Len(time_slots) :
            LET d == schedule[time_slots[k]]
            IN \A i \in 1..Len(d) : ValidAt(k, d[i])

(* C3, amended: in every solved schedule, every pair the solver chose (every committed
   pair whose position no override had pinned) passes is_assignment_valid with the
   Employee State carried into that slot. *)
C3_SolverChosenValid ==
    SolvedTop =>
        \A k \in 1..Len(time_slots) :
            LET d == schedule[time_slots[k]]
            IN \A i \in 1..Len(d) :
                  d[i].pos \notin stack[k].pre_assigned => ValidAt(k, d[i])

\* a solved run in which the first pairing enumerated at some slot broke a rule
C3_Witness ==
    /\ SolvedTop
    /\ \E k \in 1..Len(time_slots) :
          LET f == stack[k]
              first == ZipAssigns(f.positions_to_fill, permutations(f.avail_emps)[1])
          IN /\ ~AllValid(first, SlotTime(k), f.employee_states, rules)
             /\ f.best_perm.assigns # <<>>

-----------------------------------------------------------------------------
(* C4: the solve reports the infeasible failure only when no assignment of the slots
   satisfies all rules and overrides: a call reports failure only if no valid pairing
   at its slot leads to a solved continuation. *)

\* lines 135-147 on the compiled sets: the pins and the pool the solver starts from
RECURSIVE ApplyAll(_, _)
ApplyAll(sa, ovs) ==
    IF ovs = <<>> THEN sa ELSE ApplyAll(ApplyOneOverride(sa, Head(ovs)), Tail(ovs))

Seeded ==
    ApplyAll([schedule |-> [t \in SeqToSet(TimeSlotsStr(DfLong)) |-> <<>>],
              availability |-> SlotSets(DfLong, "IsWorking")], overrides)

\* some valid pairing at slot idx (counted from 0) leads to a solved continuation
RECURSIVE Solvable(_, _)
Solvable(idx, states) ==
    IF idx >= Len(time_slots) THEN TRUE
    ELSE LET slot == time_slots[idx + 1]
             pins == Seeded.schedule[slot]
             emps == sorted(CHOOSE l \in ListOrders(Seeded.availability[slot]) : TRUE)
             fill == PositionsToFill(WorkPositions(has_lobby), DictKeys(pins), emps)
             perms == permutations(emps)
         IN \E i \in 1..Len(perms) :
               LET assigns == ZipAssigns(fill, perms[i])
               IN /\ AllValid(assigns, parse_time_input(slot), states, rules)
                  /\ Solvable(idx + 1, NewStates(states, DictUpdate(pins, assigns),
                                                 states, rules))

C4_InfeasibleOnlyIfNoSolution ==
    (pc = "done" /\ result = Message(InfeasibleMessage)) => ~Solvable(0, EmptyDict)

-----------------------------------------------------------------------------
(* C5: with no overrides, for every rule with threshold N governing position P (or a
   group of positions), no employee of a solved schedule holds P (or positions of the
   group) in more than N consecutive slots that all lie inside the rule's window. *)
PositionRules == Get(rules, "position_rules", <<>>)

InWindow(rule, k) == RuleApplies(rule, SlotTime(k))

Employees == UNION {DictValues(schedule[t]) : t \in DOMAIN schedule}

\* e holds one of the positions in every slot of a..b, all inside the rule's window
RunOf(rule, e, positions, a, b) ==
    \A j \in a..b : InWindow(rule, j) /\ PositionsOf(j, e) \cap positions # {}

C5_ConsecutiveCap ==
    (Solved /\ overrides = <<>>) =>
        \A r \in 1..Len(PositionRules) : \A e \in Employees :
            LET rule == PositionRules[r]
            IN /\ "max_consecutive_slots" \in DOMAIN rule =>
                    \A P \in RulePositions(rule) : \A a \in 1..Len(time_slots) :
                        LET b == a + rule.max_consecutive_slots
                        IN b <= Len(time_slots) => ~RunOf(rule, e, {P}, a, b)
               /\ "max_consecutive_slots_in_group" \in DOMAIN rule =>
                    \A a \in 1..Len(time_slots) :
                        LET b == a + rule.max_consecutive_slots_in_group
                        IN b <= Len(time_slots) => ~RunOf(rule, e, RulePositions(rule), a, b)

(* C5, amended: with no overrides, for every rule with threshold N governing position P
   (or a group of positions), no employee of a solved schedule holds P (or positions of
   the group) in more than max(N, 1) consecutive slots that all lie inside the rule's
   window: a threshold below 1 acts as 1. *)
Max(a, b) == IF a > b THEN a ELSE b

C5_ConsecutiveCapFloor ==
    (Solved /\ overrides = <<>>) =>
        \A r \in 1..Len(PositionRules) : \A e \in Employees :
            LET rule == PositionRules[r]
            IN /\ "max_consecutive_slots" \in DOMAIN rule =>
                    \A P \in RulePositions(rule) : \A a \in 1..Len(time_slots) :
                        LET b == a + Max(rule.max_consecutive_slots, 1)
                        IN b <= Len(time_slots) => ~RunOf(rule, e, {P}, a, b)
               /\ "max_consecutive_slots_in_group" \in DOMAIN rule =>
                    \A a \in 1..Len(time_slots) :
                        LET b == a + Max(rule.max_consecutive_slots_in_group, 1)
                        IN b <= Len(time_slots) => ~RunOf(rule, e, RulePositions(rule), a, b)

\* a solved run in which an employee held a capped position for exactly the cap, inside
\* the window, and worked the next slot, also inside the window, elsewhere
C5_Witness ==
    /\ Solved
    /\ overrides = <<>>
    /\ \E r \in 1..Len(PositionRules) : \E e \in Employees :
          LET rule == PositionRules[r]
          IN /\ "max_consecutive_slots" \in DOMAIN rule
             /\ rule.max_consecutive_slots >= 1
             /\ \E P \in RulePositions(rule) : \E a \in 1..Len(time_slots) :
                   LET b == a + rule.max_consecutive_slots
                   IN /\ b <= Len(time_slots)
                      /\ RunOf(rule, e, {P}, a, b - 1)
                      /\ InWindow(rule, b)
                      /\ PositionsOf(b, e) # {}
                      /\ P \notin PositionsOf(b, e)

-----------------------------------------------------------------------------
(* C6: two runs of create_rule_based_schedule on identical inputs produce the identical
   result, a schedule or a failure, whatever order the sets iterate in. *)
C6_Deterministic ==
    (run = 2 /\ pc = "done") => result = prev_result

\* a second run that solved slots with several working employees
C6_Witness ==
    /\ run = 2
    /\ Solved
    /\ prev_result.kind = "csv"
    /\ \E t \in DOMAIN availability : Cardinality(availability[t]) > 1

-----------------------------------------------------------------------------
(* C7: for every well-formed override (E, P, start, end) that no later override
   supersedes, every slot of the grid whose time lies in [start, end) has
   schedule[slot][P] = E before solving and in the final schedule, whatever the
   alignment of the override's start with the grid. *)
Superseded(i, k) ==
    \E j \in (i + 1)..Len(overrides) :
        /\ OverrideWellFormed(overrides[j])
        /\ overrides[j].position = overrides[i].position
        /\ Covers(overrides[j], k)

C7_PinCoverage ==
    OverridesApplied =>
        \A i \in 1..Len(overrides) : \A k \in 1..Len(time_slots) :
            (OverrideWellFormed(overrides[i]) /\ Covers(overrides[i], k) /\ ~Superseded(i, k))
                => Holder(k, overrides[i].position) = overrides[i].employee

-----------------------------------------------------------------------------
(* C8: when no employee record produces any slot, create_rule_based_schedule returns the
   empty-input failure, which differs from the infeasible failure, produces no schedule
   and never enters the solver. *)
ProducesSlot(emp_data) ==
    LET s == parse_time_input(emp_data.ShiftStart)
        e == parse_time_input(emp_data.ShiftEnd)
        lo == IF s < store_open THEN store_open ELSE s
        hi == IF e > store_close THEN store_close ELSE e
    IN emp_data.ShiftStart.kind = "clock" /\ emp_data.ShiftEnd.kind = "clock" /\ lo < hi

NoRecordProducesSlot ==
    \A i \in 1..Len(employee_data_list) : ~ProducesSlot(employee_data_list[i])

C8_EmptyInput ==
    NoRecordProducesSlot =>
        /\ pc \in {"start", "done"}
        /\ stack = <<>> /\ time_idx = 0 /\ schedule = EmptyDict
        /\ pc = "done" =>
              /\ result = Message(EmptyInputMessage)
              /\ result # Message(InfeasibleMessage)

\* a roster whose records all lack a usable shift got the empty-input failure
C8_Witness ==
    /\ pc = "done"
    /\ Len(employee_data_list) > 0
    /\ NoRecordProducesSlot
    /\ result = Message(EmptyInputMessage)

-----------------------------------------------------------------------------
(* C9: with an empty rule set and no overrides the solve always succeeds, and in every
   slot with k working employees exactly the first min(k, number of catalog positions)
   positions in catalog order are filled, each by a distinct working employee, the
   others left blank. *)
Min(a, b) == IF a < b THEN a ELSE b

FirstPositions(n) == SeqToSet(SubSeq(WorkPositions(has_lobby), 1, n))

C9_NoRulesFill ==
    (rules = NoRules /\ overrides = <<>>) =>
        /\ pc = "return" => is_solved
        /\ pc = "done" => result.kind = "csv" \/ result = Message(EmptyInputMessage)
        /\ Solved =>
              \A k \in 1..Len(time_slots) :
                  LET d == schedule[time_slots[k]]
                      working == availability[time_slots[k]]
                      n == Min(Cardinality(working), Len(WorkPositions(has_lobby)))
                  IN /\ DictKeys(d) = FirstPositions(n)
                     /\ Len(d) = n
                     /\ DictValues(d) \subseteq working
                     /\ Cardinality(DictValues(d)) = n

\* solved without rules or overrides: a slot with several workers, a slot with none
C9_Witness ==
    /\ Solved
    /\ rules = NoRules
    /\ overrides = <<>>
    /\ \E t \in DOMAIN availability : Cardinality(availability[t]) > 1
    /\ \E t \in DOMAIN availability : availability[t] = {} /\ schedule[t] = <<>>

-----------------------------------------------------------------------------
(* C10: for every employee and every slot the Availability Compiler generates for that
   employee, exactly one of working, on-break, in-training holds, also when the break
   falls inside the training interval. *)
Count(b) == IF b THEN 1 ELSE 0

\* the compiler has run and no override has touched the pool yet
Compiled == pc \in {"overrides", "solve"} /\ ov_idx = 0 /\ time_idx = 0

C10_ExactlyOneClass ==
    Compiled =>
        /\ \A i \in 1..Len(DfLong) :
              Count(DfLong[i].IsWorking) + Count(DfLong[i].IsOnBreak)
                + Count(DfLong[i].IsOnTraining) = 1
        /\ \A t \in DOMAIN availability :
              \A n \in availability[t] \cup breaks[t] \cup training[t] :
                  Count(n \in availability[t]) + Count(n \in breaks[t])
                    + Count(n \in training[t]) = 1

-----------------------------------------------------------------------------
(* C11: the slot sequence the solver processes is strictly increasing and evenly spaced:
   consecutive slots are exactly one 30-minute grid step apart, for every roster, also
   when shifts start at different minutes of the hour or leave a gap between them. *)
C11_EvenGrid ==
    \A k \in 1..(Len(time_slots) - 1) : SlotTime(k + 1) - SlotTime(k) = SlotMinutes

-----------------------------------------------------------------------------
(* C12: every slot generated for any employee satisfies open <= slot time < close after
   the shift is clipped to the store bounds, and an employee whose shift equals the store
   bounds gets exactly the slots open, open + 30 min, ... strictly below close. *)

\* the slot times the compiler generated for the i-th record (names are distinct)
TimesOf(i) ==
    {DfLong[j].Time : j \in {r \in 1..Len(DfLong) :
        DfLong[r].EmployeeName = NormalizeName(employee_data_list[i].Name)}}

\* open, open + 30 min, ... strictly below close
StoreGrid == {t \in store_open..(store_close - 1) : (t - store_open) % SlotMinutes = 0}

ShiftEqualsStoreHours(emp_data) ==
    /\ parse_time_input(emp_data.ShiftStart) = store_open
    /\ parse_time_input(emp_data.ShiftEnd) = store_close

C12_SlotsWithinStoreHours ==
    pc # "start" =>
        /\ \A j \in 1..Len(DfLong) :
              store_open <= DfLong[j].Time /\ DfLong[j].Time < store_close
        /\ \A k \in 1..Len(time_slots) :
              store_open <= SlotTime(k) /\ SlotTime(k) < store_close
        /\ \A i \in 1..Len(employee_data_list) :
              ShiftEqualsStoreHours(employee_data_list[i]) => TimesOf(i) = StoreGrid

\* compiled: one shift reaches beyond both store bounds, another equals them
C12_Witness ==
    /\ Compiled
    /\ \E i, j \in 1..Len(employee_data_list) :
          /\ notna(parse_time_input(employee_data_list[i].ShiftStart))
          /\ parse_time_input(employee_data_list[i].ShiftStart) < store_open
          /\ parse_time_input(employee_data_list[i].ShiftEnd) > store_close
          /\ TimesOf(i) # {}
          /\ ShiftEqualsStoreHours(employee_data_list[j])
          /\ TimesOf(j) # {}

-----------------------------------------------------------------------------
(* C13: the pairing committed at a slot is, among all valid pairings of that slot
   enumerated with employees sorted by name against positions in catalog order, the first
   one of highest score under the configured scoring policy; when the rule set configures
   no scoring policy, it is the first valid pairing in enumeration order. *)

\* the pairings the call of the k-th slot enumerated, in order
Pairings(k) ==
    LET perms == permutations(stack[k].avail_emps)
    IN [i \in 1..Len(perms) |-> ZipAssigns(stack[k].positions_to_fill, perms[i])]

ValidPairings(k) ==
    {i \in 1..Len(Pairings(k)) :
        AllValid(Pairings(k)[i], SlotTime(k), stack[k].employee_states, rules)}

PolicyConfigured == "prioritization_strategy" \in DOMAIN rules

\* the score of a pairing under the configured policy; without a policy all are equal
PolicyScore(k, i) ==
    IF PolicyConfigured
    THEN calculate_assignment_score(Pairings(k)[i], stack[k].employee_states, rules)
    ELSE 0

\* the first valid pairing of highest score
FirstBest(k) ==
    CHOOSE i \in ValidPairings(k) :
        \A j \in ValidPairings(k) :
            \/ PolicyScore(k, j) < PolicyScore(k, i)
            \/ PolicyScore(k, j) = PolicyScore(k, i) /\ i <= j

C13_FirstBestCommitted ==
    \A k \in 1..Len(stack) :
        /\ ValidPairings(k) # {}
        /\ stack[k].best_perm.assigns = Pairings(k)[FirstBest(k)]

-----------------------------------------------------------------------------
(* C14: after a slot is committed, for every (position, employee) pair of the merged
   assignment, pinned pairs included, the employee's new state has last position =
   position, consecutive counter = prior counter + 1 if the position equals the prior
   last position or a grouping rule governs both, else 1, and history = prior history with
   the position appended, truncated to its 3 most recent entries; so a history never
   exceeds 3 entries and a counter is never below 1. *)

\* the Employee States the call of the k-th slot received and the ones it passed on
StatesBefore(k) == stack[k].employee_states
StatesAfter(k) == IF k < Len(stack) THEN stack[k + 1].employee_states ELSE employee_states

GroupGoverns(p, q) ==
    \E r \in 1..Len(PositionRules) :
        /\ "max_consecutive_slots_in_group" \in DOMAIN PositionRules[r]
        /\ {p, q} \subseteq RulePositions(PositionRules[r])

\* the state section 4.3.2 prescribes after holding position
UpdatedState(prior, position) ==
    LET last == Get(prior, "last_pos", PyNone)
        appended == Append(Get(prior, "history", <<>>), position)
    IN [last_pos |-> position,
        time_in_pos |-> IF position = last \/ GroupGoverns(position, last)
                        THEN Get(prior, "time_in_pos", 0) + 1 ELSE 1,
        history |-> IF Len(appended) > 3
                    THEN SubSeq(appended, Len(appended) - 2, Len(appended)) ELSE appended]

C14_StateUpdate ==
    \A k \in 1..Len(stack) :
        LET merged == schedule[time_slots[k]]
        IN \A i \in 1..Len(merged) :
              LET e == merged[i].emp
              IN /\ e \in DOMAIN StatesAfter(k)
                 /\ StatesAfter(k)[e] = UpdatedState(StateOf(StatesBefore(k), e), merged[i].pos)
                 /\ Len(StatesAfter(k)[e].history) <= 3
                 /\ StatesAfter(k)[e].time_in_pos >= 1

-----------------------------------------------------------------------------
(* C15: undo on failure: whenever the continuation after a committed slot reports
   failure, the solver removes that slot's committed assignment, so that when
   solve_schedule_recursive returns failure the schedule map holds exactly the
   override-pinned assignments it held when the call began. *)

\* the call with time_idx has returned (False, None)
ReturnedFailure == pc = "return" /\ ~is_solved

C15_UndoOnFailure ==
    ReturnedFailure =>
        \A k \in (time_idx + 1)..Len(time_slots) :
            schedule[time_slots[k]] = Seeded.schedule[time_slots[k]]

-----------------------------------------------------------------------------
(* C16: when several well-formed overrides cover the same slot and the same position,
   the pin in force for that slot and position before solving, and in the final schedule,
   is the employee of the override that comes last in input order. *)

\* the i-th override is well-formed, names the position and covers the k-th slot
Targets(i, k, position) ==
    /\ OverrideWellFormed(overrides[i])
    /\ overrides[i].position = position
    /\ Covers(overrides[i], k)

C16_LastOverrideWins ==
    OverridesApplied =>
        \A k \in 1..Len(time_slots) : \A i, j \in 1..Len(overrides) :
            (/\ i < j
             /\ Targets(i, k, overrides[j].position)
             /\ Targets(j, k, overrides[j].position)
             /\ \A l \in (j + 1)..Len(overrides) : ~Targets(l, k, overrides[j].position))
                => Holder(k, overrides[j].position) = overrides[j].employee

-----------------------------------------------------------------------------
(* C17: an employee's training window is [training start, explicit training end) when an
   end is given and [training start, training start + 60 minutes) when no end is given:
   with a training start and no training end, the employee is classified in-training (and
   not working) at exactly the slots of their shift inside that 60-minute window. *)

\* the end of the training window of section 3
WindowEnd(emp_data) ==
    IF notna(parse_time_input(emp_data.TrainingEnd))
    THEN parse_time_input(emp_data.TrainingEnd)
    ELSE parse_time_input(emp_data.TrainingStart) + 60

\* the rows the compiler generated for the i-th record (names are distinct)
RowsOf(i) ==
    {r \in 1..Len(DfLong) :
        DfLong[r].EmployeeName = NormalizeName(employee_data_list[i].Name)}

C17_TrainingWindow ==
    pc # "start" =>
        \A i \in 1..Len(employee_data_list) :
            LET emp_data == employee_data_list[i]
                t_start == parse_time_input(emp_data.TrainingStart)
            IN notna(t_start) =>
                  \A r \in RowsOf(i) :
                      LET inside == t_start <= DfLong[r].Time
                                      /\ DfLong[r].Time < WindowEnd(emp_data)
                      IN /\ DfLong[r].IsOnTraining <=> inside
                         /\ inside => ~DfLong[r].IsWorking
                         /\ inside =>
                               LET t == strftime(DfLong[r].Time)
                               IN /\ DfLong[r].EmployeeName \in training[t]
                                  /\ DfLong[r].EmployeeName \notin
                                        SlotSets(DfLong, "IsWorking")[t]

-----------------------------------------------------------------------------
(* C18: a structurally malformed Rule Set (an empty rules document that loads as no
   value, a document that is not a mapping) is reported to the caller of
   create_rule_based_schedule as a distinguishable configuration error before solving
   begins, and never makes the search crash. *)
Malformed == ~HasGet(rules)

\* a message that is neither the empty-input nor the infeasible failure
ConfigError ==
    /\ result.kind = "message"
    /\ result.text \notin {EmptyInputMessage, InfeasibleMessage}

C18_ConfigInvalid ==
    Malformed =>
        /\ pc \notin {"solve", "return"}
        /\ result.kind # "exception"
        /\ pc = "done" => ConfigError

-----------------------------------------------------------------------------
(* C19: for every finite roster, rule set and override list, the solve processes slots
   strictly in chronological order with the slot index increasing by one per recursion
   level, and eventually returns either (true, schedule) or (false, none); it never loops
   forever. *)

\* the k-th recursion level works on the k-th slot, and the slots ascend in time
ChronologicalOrder ==
    /\ \A k \in 1..Len(stack) : stack[k].time_idx = k - 1
    /\ pc = "solve" => time_idx = Len(stack)
    /\ \A k \in 1..(Len(time_slots) - 1) : SlotTime(k) < SlotTime(k + 1)

\* the outermost call of solve_schedule_recursive has returned
SolveReturned == pc = "return" /\ stack = <<>>

C19_Terminates ==
    /\ []ChronologicalOrder
    /\ (pc = "solve" /\ stack = <<>>) ~> SolveReturned
    /\ <>(pc = "done")

\* the solve has returned from MaxSlots levels of recursion with overrides in force
C19_Witness ==
    /\ SolveReturned
    /\ Len(time_slots) = MaxSlots
    /\ overrides # <<>>
    /\ \E t \in DOMAIN schedule : Len(schedule[t]) > 1

-----------------------------------------------------------------------------
(* C20: no employee is lost by the Override Applier: after all overrides are applied,
   every employee classified working at a slot is either still in that slot's
   availability pool or pinned to some position in that slot's schedule, also when a
   later override overwrites an earlier override's pin on the same slot and position. *)

\* the overrides are applied and the solver has not yet committed anything
BeforeSolving == pc = "solve" /\ time_idx = 0 /\ stack = <<>>

C20_NoEmployeeLost ==
    BeforeSolving =>
        \A t \in DOMAIN schedule :
            \A e \in SlotSets(DfLong, "IsWorking")[t] :
                e \in availability[t] \/ e \in DictValues(schedule[t])

-----------------------------------------------------------------------------
(* C21: the Employee State of an employee who holds no position in a committed slot (on
   break, in training, off shift, or surplus to the positions) is carried to the next
   slot unchanged: last position, consecutive counter and history are neither reset nor
   advanced, so a slot spent away from a position does not restart the consecutive count
   for that position. *)

\* the employees of the merged assignment of the k-th slot
Holders(k) == DictValues(schedule[time_slots[k]])

\* the positions e holds in the k-th slot
HeldBy(k, e) ==
    {schedule[time_slots[k]][i].pos :
        i \in {n \in 1..Len(schedule[time_slots[k]]) : schedule[time_slots[k]][n].emp = e}}

\* e has the same entry, or no entry, in both state maps
SameEntry(before, after, e) ==
    /\ e \in DOMAIN before <=> e \in DOMAIN after
    /\ e \in DOMAIN before => after[e] = before[e]

\* e held a position in slot j and none in the slots between j and k
AwayBetween(j, k, e) ==
    /\ j + 1 < k
    /\ e \in Holders(j)
    /\ \A m \in (j + 1)..(k - 1) : e \notin Holders(m)

C21_StateCarried ==
    /\ \A k \in 1..Len(stack) :
          \A e \in (DOMAIN StatesBefore(k) \cup DOMAIN StatesAfter(k)) \ Holders(k) :
              SameEntry(StatesBefore(k), StatesAfter(k), e)
    /\ \A j \in 1..Len(stack) : \A k \in 1..Len(stack) :
          \A e \in DOMAIN StatesAfter(j) :
              AwayBetween(j, k, e) =>
                 /\ SameEntry(StatesAfter(j), StatesBefore(k), e)
                 /\ HeldBy(k, e) = {StatesAfter(j)[e].last_pos} =>
                        StatesAfter(k)[e].time_in_pos = StatesAfter(j)[e].time_in_pos + 1

\* an employee held the free position in the first slot, was working but surplus in the
\* second, and holds the position again in the third with the count going on
C21_Witness ==
    /\ Len(stack) >= 3
    /\ \E e \in Holders(1) :
          /\ e \in SlotSets(DfLong, "IsWorking")[time_slots[2]]
          /\ AwayBetween(1, 3, e)
          /\ HeldBy(3, e) = HeldBy(1, e)
          /\ StatesAfter(1)[e].time_in_pos = 1
          /\ StatesBefore(3)[e] = StatesAfter(1)[e]
          /\ StatesAfter(3)[e].time_in_pos = 2

====
